---- MODULE Spec2Model ----
(***************************************************************************)
(* Model of the HMC5883L magnetometer driver (src/unnamed/part_000, the    *)
(* 0.2 revision of HMC5883L.cpp, with HMC5883L.h) on top of the I2CDev bus *)
(* transport (I2CDev.h / I2CDev.cpp, stored after Vec3 in src/Vec3.h).     *)
(*                                                                         *)
(* Every driver method is an operator from a machine record (the object's  *)
(* fields, the device's registers and the bus trace of the running call)   *)
(* to the SET of machine records the call can end in: one element per      *)
(* way the bus transactions of the call can succeed or fail and per value  *)
(* the device can return.  An action applies one public method to the      *)
(* current state and commits one of its outcomes.                          *)
(*                                                                         *)
(* The bus transport is modelled by its documented contract: a read        *)
(* returns the register's content, or 0 with a non-zero error code; a      *)
(* write stores the byte, or leaves the register alone and returns a       *)
(* non-zero error code.                                                    *)
(***************************************************************************)
EXTENDS Integers, Sequences, FiniteSets, TLC

VARIABLES
    gain,               \* HMC5883L::gain             (cached gain level)
    averagingRate,      \* HMC5883L::averagingRate
    outputRate,         \* HMC5883L::outputRate
    measurementMode,    \* HMC5883L::measurementMode
    biasMode,           \* HMC5883L::biasMode
    err_code,           \* HMC5883L::err_code
    calibration,        \* HMC5883L::calibration
    regs,               \* the device: Config A, Config B and Mode registers
    op,                 \* the public call that has just returned: [name, arg]
    ret,                \* what that call returned
    busLog,             \* the bus transactions that call issued, in order
    initialized,        \* history: some initialize() call has returned 0
    inits,              \* history: the number of initialize() calls made
    session,            \* the group of methods this run of the driver uses
    callers             \* the position of each caller sharing the driver

vars == <<gain, averagingRate, outputRate, measurementMode, biasMode, err_code,
          calibration, regs, op, ret, busLog, initialized, inits, session,
          callers>>

cache == <<gain, averagingRate, outputRate, measurementMode, biasMode>>

-----------------------------------------------------------------------------
(* Register map and constants of HMC5883L.h and I2CDev.h *)

ConfigRegisterA == 0
ConfigRegisterB == 1
ModeRegister == 2
DataRegister == 3
StatusRegister == 9

HMC_GAIN130 == 1
HMC_AVG1 == 0
HMC_RATE1500 == 4
HMC_MeasurementContinuous == 0
HMC_MeasurementSingle == 1
HMC_MeasurementIdle == 2
HMC_BIAS_NONE == 0
HMC_BIAS_POSITIVE == 1
HMC_BIAS_NEGATIVE == 2

\* The default delay between polls, in milliseconds, and the fields of the
\* self test, in milliGauss.
HMC_SLEEP_DELAY == 7
HMC_BIAS_XY == 1160
HMC_BIAS_Z == 1080

EC_NO_ERR == 0
EC_DATA_LONG == 1
EC_NACK_ADDR == 2
EC_I2C_OTHER == 3

EC_BAD_GAIN_LEVEL == 8
EC_INVALID_NAVG == 9
EC_INVALID_OUTRATE == 10
EC_INVALID_MEASUREMENT_MODE == 11
EC_INVALID_BIAS_MODE == 12
EC_INVALID_UFLOAT == 13

WC_X_SATURATED == 1
WC_Y_SATURATED == 2
WC_Z_SATURATED == 4

\* The non-zero codes a bus transaction can end with (I2CDev.h).
TransportCodes == {EC_DATA_LONG, EC_NACK_ADDR, EC_I2C_OTHER}

\* The codes the setters return for an out-of-range argument.
InvalidParameterCodes ==
    {EC_BAD_GAIN_LEVEL, EC_INVALID_NAVG, EC_INVALID_OUTRATE,
     EC_INVALID_MEASUREMENT_MODE, EC_INVALID_BIAS_MODE}

\* gainValues[], in hundredths of a milliGauss per LSB (index 0 first).
gainValues == <<73, 92, 122, 152, 227, 256, 303, 435>>

-----------------------------------------------------------------------------
(* uint8_t arithmetic *)

Bit(a, i) == (a \div (2 ^ i)) % 2

\* a & b on bytes
And8(a, b) ==
    Bit(a, 0) * Bit(b, 0) + 2 * Bit(a, 1) * Bit(b, 1)
    + 4 * Bit(a, 2) * Bit(b, 2) + 8 * Bit(a, 3) * Bit(b, 3)
    + 16 * Bit(a, 4) * Bit(b, 4) + 32 * Bit(a, 5) * Bit(b, 5)
    + 64 * Bit(a, 6) * Bit(b, 6) + 128 * Bit(a, 7) * Bit(b, 7)

\* a | b on bytes
Or8(a, b) == a + b - And8(a, b)

\* (uint8_t)(a << n): the shift is done in int, the byte parameter truncates it
Shl8(a, n) == (a * (2 ^ n)) % 256

\* a >> n
Shr8(a, n) == a \div (2 ^ n)

\* (int16_t)(hi << 8 | lo)
Int16(hi, lo) ==
    LET v == hi * 256 + lo IN IF v >= 32768 THEN v - 65536 ELSE v

-----------------------------------------------------------------------------
(* Vec3<float> arithmetic, exact: a float is a fraction <<n, d>> in lowest terms *)

RECURSIVE Gcd(_, _)
Gcd(a, b) == IF b = 0 THEN a ELSE Gcd(b, a % b)

\* n / d, d # 0.
Frac(n, d) ==
    LET a == IF n < 0 THEN -n ELSE n
        b == IF d < 0 THEN -d ELSE d
        g == Gcd(a, b)
        sign == IF (n < 0) # (d < 0) THEN -1 ELSE 1
    IN <<sign * (a \div g), b \div g>>

FracMul(p, q) == Frac(p[1] * q[1], p[2] * q[2])

\* Vec3<float>(1.0, 1.0, 1.0) and Vec3<float>(0.0, 0.0, 0.0)
Ones == <<Frac(1, 1), Frac(1, 1), Frac(1, 1)>>
Zeros == <<Frac(0, 1), Frac(0, 1), Frac(0, 1)>>

-----------------------------------------------------------------------------
(* Bounds of the model *)

\* Largest number of initialize() calls in a run.
MaxInits == 1

\* Largest max_retries a caller passes to the single-shot reads.
MaxRetries == 2

\* What the memory of the driver object can hold after construction: the
\* constructor assigns none of the cached settings, err_code or calibration.
\* byte is the content of each uint8_t field, vec the content of calibration.
IndeterminateObjects ==
    { [byte |-> 0, vec |-> Zeros],
      [byte |-> 255, vec |-> <<Frac(-1, 1), Frac(-1, 1), Frac(-1, 1)>>] }

\* Register contents the device can hold when the driver is constructed: the
\* defaults named in initialize()'s documentation (1 sample, 15 Hz, gain 1)
\* with the mode register selecting a single measurement, or every bit set by
\* an earlier user of the device.
InitialRegs ==
    { [r \in {ConfigRegisterA, ConfigRegisterB, ModeRegister} |->
          IF r = ConfigRegisterA THEN 16 ELSE IF r = ConfigRegisterB THEN 32 ELSE 1],
      [r \in {ConfigRegisterA, ConfigRegisterB, ModeRegister} |-> 255] }

\* The groups of methods a run of the driver exercises: the methods working on
\* one of the three registers, or initialize() with the scaled read and the
\* high-speed switch.
Sessions == {"ConfigA", "ConfigB", "Mode", "Lifecycle"}

\* Contents of the six data registers the device can present (X, Z, Y pairs).
DataSamples ==
    { <<0, 10, 240, 0, 0, 20>>,        \* x = 10, z = -4096, y = 20
      <<0, 100, 0, 0, 0, 0>>,          \* x = 100
      <<240, 0, 255, 255, 240, 0>>,    \* x = -4096, z = -1, y = -4096
      <<4, 136, 4, 56, 4, 136>>,       \* x = 1160, z = 1080, y = 1160
      <<251, 120, 251, 200, 251, 120>> }   \* x = -1160, z = -1080, y = -1160

\* What a read past the end of gainValues[] can yield (the cached gain is an
\* uninitialized byte until a setter or getter assigns it).
StrayResolutions == {0, 100}

\* Values the two-bit status register can present.
StatusValues == 0 .. 3

\* Arguments the callers pass.
GainArgs == 0 .. 8
AveragingArgs == 0 .. 4
OutputRateArgs == 0 .. 7
ModeArgs == 0 .. 3
BiasArgs == 0 .. 3
RetryArgs == 0 .. MaxRetries
DelayArgs == {-1, 7}
SelfTestRetryArgs == {0, 1}

-----------------------------------------------------------------------------
(* The machine record a call runs on *)

\* The driver object and the device as a call sees them; F is the set of error
\* codes the bus can produce during the call.
Machine(F) ==
    [gain |-> gain, averagingRate |-> averagingRate, outputRate |-> outputRate,
     measurementMode |-> measurementMode, biasMode |-> biasMode,
     err_code |-> err_code, calibration |-> calibration, regs |-> regs,
     log |-> <<>>, rv |-> 0, vec |-> <<0, 0, 0>>, val |-> 0, data |-> <<>>,
     bus_err |-> 0, sat |-> -1, done |-> FALSE, F |-> F,
     pos_test |-> <<0, 0, 0>>, neg_test |-> <<0, 0, 0>>,
     locked |-> FALSE, ready |-> FALSE, mode |-> -1, tests |-> <<>>,
     scaled |-> [vec |-> <<0, 0, 0>>, log |-> <<>>, err_code |-> 0]]

\* return v, from a method returning uint8_t
Ret(m, v) == [m EXCEPT !.rv = v]

\* return v, from a method returning a Vec3
RetVec(m, v) == [m EXCEPT !.vec = v]

-----------------------------------------------------------------------------
(* I2CDev: the bus transport *)

\* I2CDev::write_data: returns (and stores) the transaction's error code.
write_data(m, register_addr, data) ==
    { [m EXCEPT !.regs = [m.regs EXCEPT ![register_addr] = data],
                !.bus_err = EC_NO_ERR, !.rv = EC_NO_ERR,
                !.log = Append(@, <<"w", register_addr, data, EC_NO_ERR>>)] }
    \cup
    { [m EXCEPT !.bus_err = c, !.rv = c,
                !.log = Append(@, <<"w", register_addr, data, c>>)] : c \in m.F }

\* What the device answers to a one-byte read.
DeviceByte(m, register_addr) ==
    IF register_addr = StatusRegister THEN StatusValues ELSE {m.regs[register_addr]}

\* I2CDev::read_data_byte: the byte, or 0 with err_code set.
read_data_byte(m, register_addr) ==
    { [m EXCEPT !.val = v, !.bus_err = EC_NO_ERR,
                !.log = Append(@, <<"r", register_addr, v, EC_NO_ERR>>)]
      : v \in DeviceByte(m, register_addr) }
    \cup
    { [m EXCEPT !.val = 0, !.bus_err = c,
                !.log = Append(@, <<"r", register_addr, 0, c>>)] : c \in m.F }

\* I2CDev::read_data(DataRegister, 6): the six bytes, or NULL (<<>>) with
\* err_code set.
read_data(m, register_addr) ==
    { [m EXCEPT !.data = d, !.bus_err = EC_NO_ERR,
                !.log = Append(@, <<"r", register_addr, 0, EC_NO_ERR>>)]
      : d \in DataSamples }
    \cup
    { [m EXCEPT !.data = <<>>, !.bus_err = c,
                !.log = Append(@, <<"r", register_addr, 0, c>>)] : c \in m.F }

\* I2CDev::get_err_code
get_err_code(m) == m.bus_err

-----------------------------------------------------------------------------
(* HMC5883L: setters *)

\* setGain with the level shifted by 4 instead of 5: a variant the properties
\* of setGain must tell from the code's.
setGain_Shift4(m, gain_level) ==
    IF gain_level > 7 THEN {Ret(m, EC_BAD_GAIN_LEVEL)}
    ELSE UNION {
        IF w.rv # 0 THEN {Ret(w, w.rv)}
        ELSE {Ret([w EXCEPT !.gain = gain_level], 0)}
        : w \in write_data(m, ConfigRegisterB, Shl8(gain_level, 4)) }

setGain(m, gain_level) ==
    IF gain_level > 7 THEN {Ret(m, EC_BAD_GAIN_LEVEL)}
    ELSE UNION {
        IF w.rv # 0 THEN {Ret(w, w.rv)}
        ELSE {Ret([w EXCEPT !.gain = gain_level], 0)}
        : w \in write_data(m, ConfigRegisterB, Shl8(gain_level, 5)) }

\* The read-modify-write with the cache updated before the result of the write
\* is looked at: a variant the error handling properties must tell from the
\* code's.
SetField_CacheBeforeWrite(m, reg, keep, bits, field, value) ==
    UNION {
        LET m1 == [r EXCEPT !.err_code = get_err_code(r)] IN
        IF m1.err_code # 0 THEN {Ret(m1, m1.err_code)}
        ELSE { Ret([w EXCEPT !.err_code = w.rv, ![field] = value], w.rv)
               : w \in write_data(m1, reg, Or8(bits, And8(r.val, keep))) }
        : r \in read_data_byte(m, reg) }

\* The read-modify-write the setters of Config A and of the measurement mode
\* share: read reg, keep the bits of keep, or in bits, write back; field is
\* the cached setting that takes value on success.
SetField(m, reg, keep, bits, field, value) ==
    UNION {
        LET m1 == [r EXCEPT !.err_code = get_err_code(r)] IN
        IF m1.err_code # 0 THEN {Ret(m1, m1.err_code)}
        ELSE UNION {
            LET m2 == [w EXCEPT !.err_code = w.rv] IN
            IF m2.err_code # 0 THEN {Ret(m2, m2.err_code)}
            ELSE {Ret([m2 EXCEPT ![field] = value], 0)}
            : w \in write_data(m1, reg, Or8(bits, And8(r.val, keep))) }
        : r \in read_data_byte(m, reg) }

\* setAveragingRate with mask 0x9c, which clears the bias bits as well: a
\* variant the isolation property must tell from the code's.
setAveragingRate_Mask9c(m, avg_rate) ==
    IF avg_rate > 3 THEN {Ret(m, EC_INVALID_NAVG)}
    ELSE SetField(m, ConfigRegisterA, 156, Shl8(avg_rate, 5),
                  "averagingRate", avg_rate)

setAveragingRate(m, avg_rate) ==
    IF avg_rate > 3 THEN {Ret(m, EC_INVALID_NAVG)}
    ELSE SetField(m, ConfigRegisterA, 159, Shl8(avg_rate, 5),
                  "averagingRate", avg_rate)

\* setOutputRate with the range check one too high: a variant the range
\* property must tell from the code's.
setOutputRate_AcceptsSeven(m, out_rate) ==
    IF out_rate > 7 THEN {Ret(m, EC_INVALID_OUTRATE)}
    ELSE SetField(m, ConfigRegisterA, 227, Shl8(out_rate, 2),
                  "outputRate", out_rate)

setOutputRate(m, out_rate) ==
    IF out_rate > 6 THEN {Ret(m, EC_INVALID_OUTRATE)}
    ELSE SetField(m, ConfigRegisterA, 227, Shl8(out_rate, 2),
                  "outputRate", out_rate)

setMeasurementMode(m, mode) ==
    IF mode > 2 THEN {Ret(m, EC_INVALID_MEASUREMENT_MODE)}
    ELSE SetField(m, ModeRegister, 128, mode, "measurementMode", mode)

\* setBiasMode keeping nothing of Config A: a variant the isolation of the bias
\* tests must tell from the code's.
setBiasMode_KeepsNothing(m, mode) ==
    IF mode > 2 THEN {Ret(m, EC_INVALID_BIAS_MODE)}
    ELSE SetField(m, ConfigRegisterA, 0, mode, "biasMode", mode)

setBiasMode(m, mode) ==
    IF mode > 2 THEN {Ret(m, EC_INVALID_BIAS_MODE)}
    ELSE SetField(m, ConfigRegisterA, 252, mode, "biasMode", mode)

\* modeRegister = read & 0x80; write modeRegister & (enabled ? 0x80 : 0x00)
setHighSpeedI2CMode(m, enabled) ==
    UNION {
        LET m1 == [r EXCEPT !.err_code = get_err_code(r)] IN
        IF m1.err_code # 0 THEN {Ret(m1, m1.err_code)}
        ELSE { Ret([w EXCEPT !.err_code = w.rv], w.rv)
               : w \in write_data(m1, ModeRegister,
                                  And8(And8(r.val, 128), IF enabled THEN 128 ELSE 0)) }
        : r \in read_data_byte(m, ModeRegister) }

-----------------------------------------------------------------------------
(* HMC5883L: getters *)

\* The getter that reads the device whatever updateCache says: a variant the
\* properties of the cached path must tell from the code's.
GetField_AlwaysReads(m, updateCache, reg, mask, shift, field) ==
    UNION {
        LET m1 == [r EXCEPT !.err_code = get_err_code(r)] IN
        IF m1.err_code # 0 THEN {Ret(m1, m1.err_code)}
        ELSE LET v == Shr8(And8(r.val, mask), shift) IN
             {Ret([m1 EXCEPT ![field] = v], v)}
        : r \in read_data_byte(m, reg) }

\* The getters that check the bus error: on failure return err_code, else
\* cache (regValue & mask) >> shift.
GetField(m, updateCache, reg, mask, shift, field) ==
    IF updateCache
    THEN UNION {
        LET m1 == [r EXCEPT !.err_code = get_err_code(r)] IN
        IF m1.err_code # 0 THEN {Ret(m1, m1.err_code)}
        ELSE LET v == Shr8(And8(r.val, mask), shift) IN
             {Ret([m1 EXCEPT ![field] = v], v)}
        : r \in read_data_byte(m, reg) }
    ELSE {Ret(m, m[field])}

getGain(m, updateCache) ==
    GetField(m, updateCache, ConfigRegisterB, 255, 5, "gain")

getAveragingRate(m, updateCache) ==
    GetField(m, updateCache, ConfigRegisterA, 96, 5, "averagingRate")

getOutputRate(m, updateCache) ==
    GetField(m, updateCache, ConfigRegisterA, 28, 2, "outputRate")

\* getMeasurementMode reading the register only when asked to: a variant the
\* property of the single-shot cache must tell from the code's.
getMeasurementMode_ReadsOnRequest(m, updateCache) ==
    IF updateCache
    THEN { LET v == And8(r.val, 3) IN Ret([r EXCEPT !.measurementMode = v], v)
           : r \in read_data_byte(m, ModeRegister) }
    ELSE {Ret(m, m.measurementMode)}

\* No look at the bus error: a failed read caches read_data_byte's 0.
getMeasurementMode(m, updateCache) ==
    IF updateCache \/ m.measurementMode = HMC_MeasurementSingle
    THEN { LET v == And8(r.val, 3) IN Ret([r EXCEPT !.measurementMode = v], v)
           : r \in read_data_byte(m, ModeRegister) }
    ELSE {Ret(m, m.measurementMode)}

getBiasMode(m, updateCache) ==
    IF updateCache
    THEN { LET v == And8(r.val, 3) IN Ret([r EXCEPT !.biasMode = v], v)
           : r \in read_data_byte(m, ConfigRegisterA) }
    ELSE {Ret(m, m.biasMode)}

-----------------------------------------------------------------------------
(* HMC5883L: status and data reads *)

\* Returns regValue (0..3), or 4 with err_code set; the out-parameters are
\* the two bits of the value returned.
isLocked(regValue) == And8(regValue, 2) # 0
isReady(regValue) == And8(regValue, 1) # 0

\* getStatus with the two out-parameters exchanged: a variant the property of
\* getStatus must tell from the code's.
getStatus_SwappedBits(m) ==
    { LET m1 == [r EXCEPT !.err_code = get_err_code(r)]
          regValue == And8(r.val, 3)
      IN IF m1.err_code # 0 THEN Ret(m1, 4)
         ELSE Ret([m1 EXCEPT !.locked = isReady(regValue),
                             !.ready = isLocked(regValue)], regValue)
      : r \in read_data_byte(m, StatusRegister) }

\* locked and ready are the caller's *isLocked and *isReady, assigned only
\* when the read succeeded.
getStatus(m) ==
    { LET m1 == [r EXCEPT !.err_code = get_err_code(r)]
          regValue == And8(r.val, 3)
      IN IF m1.err_code # 0 THEN Ret(m1, 4)
         ELSE Ret([m1 EXCEPT !.locked = isLocked(regValue),
                             !.ready = isReady(regValue)], regValue)
      : r \in read_data_byte(m, StatusRegister) }

\* The saturation flags with those of Y and Z exchanged: a variant the
\* property of the mask must tell from the code's.
SaturationMask_SwappedYZ(x, y, z) ==
    (IF x = -4096 THEN WC_X_SATURATED ELSE 0)
    + (IF y = -4096 THEN WC_Z_SATURATED ELSE 0)
    + (IF z = -4096 THEN WC_Y_SATURATED ELSE 0)

\* The saturation flags of a raw vector.
SaturationMask(x, y, z) ==
    (IF x = -4096 THEN WC_X_SATURATED ELSE 0)
    + (IF y = -4096 THEN WC_Y_SATURATED ELSE 0)
    + (IF z = -4096 THEN WC_Z_SATURATED ELSE 0)

\* readRawValues taking the byte pairs in the order X, Y, Z: a variant the
\* property of the decoding must tell from the code's.
readRawValues_SequentialAxes(m, saturated) ==
    { LET m1 == [r EXCEPT !.err_code = get_err_code(r)] IN
      IF m1.err_code # 0 THEN RetVec(m1, <<0, 0, 0>>)
      ELSE LET x == Int16(r.data[1], r.data[2])
               y == Int16(r.data[3], r.data[4])
               z == Int16(r.data[5], r.data[6])
           IN RetVec([m1 EXCEPT !.sat = IF saturated THEN SaturationMask(x, y, z)
                                        ELSE @],
                     <<x, y, z>>)
      : r \in read_data(m, DataRegister) }

\* saturated is the flag "the caller passed a non-NULL pointer"; m.sat is
\* what was stored through it (-1: nothing).
readRawValues(m, saturated) ==
    { LET m1 == [r EXCEPT !.err_code = get_err_code(r)] IN
      IF m1.err_code # 0 THEN RetVec(m1, <<0, 0, 0>>)
      ELSE LET x == Int16(r.data[1], r.data[2])
               y == Int16(r.data[5], r.data[6])
               z == Int16(r.data[3], r.data[4])
           IN RetVec([m1 EXCEPT !.sat = IF saturated THEN SaturationMask(x, y, z)
                                        ELSE @],
                     <<x, y, z>>)
      : r \in read_data(m, DataRegister) }

\* The resolution of the next gain level: a variant the property of the
\* scaling must tell from the code's.
Resolution_NextLevel(m) ==
    IF m.gain \in 0 .. 6 THEN {gainValues[m.gain + 2]} ELSE StrayResolutions

\* gainValues[gain]
Resolution(m) ==
    IF m.gain \in 0 .. 7 THEN {gainValues[m.gain + 1]} ELSE StrayResolutions

\* Vec3 * scalar
Scale(v, c) == <<v[1] * c, v[2] * c, v[3] * c>>

\* readScaledValues reading the registers a second time when the first read
\* failed: a variant the property of the failed read must tell from the code's.
readScaledValues_ReadsAgain(m, saturated) ==
    UNION {
        IF raw.err_code # 0
        THEN {RetVec(again, <<0, 0, 0>>) : again \in readRawValues(raw, saturated)}
        ELSE {RetVec(raw, Scale(raw.vec, g)) : g \in Resolution(raw)}
        : raw \in readRawValues(m, saturated) }

\* The result is in hundredths of a milliGauss.
readScaledValues(m, saturated) ==
    UNION {
        IF raw.err_code # 0 THEN {RetVec(raw, <<0, 0, 0>>)}
        ELSE {RetVec(raw, Scale(raw.vec, g)) : g \in Resolution(raw)}
        : raw \in readRawValues(m, saturated) }

\* What the underlying scaled read handed to a calibrated read: the vector it
\* returned, and the bus transactions and err_code at its return.
Underlying(sc) == [vec |-> sc.vec, log |-> sc.log, err_code |-> sc.err_code]

\* Vec3<float> * Vec3<float>, the left vector in hundredths of a milliGauss.
Calibrate(v, c) ==
    <<FracMul(Frac(v[1], 1), c[1]), FracMul(Frac(v[2], 1), c[2]),
      FracMul(Frac(v[3], 1), c[3])>>

\* return readScaledValues(saturated) * calibration;
readCalibratedValues(m, saturated) ==
    { RetVec([sc EXCEPT !.scaled = Underlying(sc)],
             Calibrate(sc.vec, sc.calibration))
      : sc \in readScaledValues(m, saturated) }

\* while (max_retries && retries++ < max_retries) { ... }: the machines that
\* leave the loop.  rv = 0 marks those that go on to the data read, a non-zero
\* rv those that made the method return from inside the loop.
RECURSIVE PollLoop(_, _, _)
PollLoop(m, retries, max_retries) ==
    IF max_retries = 0 \/ retries >= max_retries THEN {Ret(m, 0)}
    ELSE UNION {
        LET m1 == [s EXCEPT !.err_code = s.rv] IN
        IF m1.err_code # 0 THEN {m1}
        ELSE IF ~isLocked(s.rv) /\ isReady(s.rv) THEN {Ret(m1, 0)}
        ELSE PollLoop(m1, retries + 1, max_retries)
        : s \in getStatus(m) }

\* The tail of readScaledValuesSingle: the data read, then the restore of mode.
ReadAndRestore(m, saturated, mode) ==
    UNION {
        UNION {
            LET old_ec == rd.err_code
                m1 == [st EXCEPT !.err_code = IF st.rv = 0 THEN old_ec ELSE st.rv]
            IN IF m1.err_code # 0 THEN {RetVec(m1, <<0, 0, 0>>)}
               ELSE {RetVec(m1, rd.vec)}
            : st \in setMeasurementMode(rd, mode) }
        : rd \in readScaledValues(m, saturated) }

\* readScaledValuesSingle taking delay_time as an unsigned number, so that the
\* test delay_time < 0.0 never holds: a variant the property of the negative
\* delay must tell from the code's.
readScaledValuesSingle_UnsignedDelay(m, saturated, max_retries, delay_time) ==
    UNION {
        UNION {
            LET m1 == [sm EXCEPT !.err_code = sm.rv] IN
            IF m1.err_code # 0 THEN {RetVec(m1, <<0, 0, 0>>)}
            ELSE UNION {
                IF p.rv # 0 THEN {RetVec(p, <<0, 0, 0>>)}
                ELSE ReadAndRestore(p, saturated, gm.rv)
                : p \in PollLoop(m1, 0, max_retries) }
            : sm \in setMeasurementMode([gm EXCEPT !.mode = gm.rv],
                                         HMC_MeasurementSingle) }
        : gm \in getMeasurementMode(m, FALSE) }

\* mode is the local of that name: uint8_t mode = getMeasurementMode();
readScaledValuesSingle(m, saturated, max_retries, delay_time) ==
    IF delay_time < 0
    THEN {RetVec([m EXCEPT !.err_code = EC_INVALID_UFLOAT], <<0, 0, 0>>)}
    ELSE UNION {
        UNION {
            LET m1 == [sm EXCEPT !.err_code = sm.rv] IN
            IF m1.err_code # 0 THEN {RetVec(m1, <<0, 0, 0>>)}
            ELSE UNION {
                IF p.rv # 0 THEN {RetVec(p, <<0, 0, 0>>)}
                ELSE ReadAndRestore(p, saturated, gm.rv)
                : p \in PollLoop(m1, 0, max_retries) }
            : sm \in setMeasurementMode([gm EXCEPT !.mode = gm.rv],
                                         HMC_MeasurementSingle) }
        : gm \in getMeasurementMode(m, FALSE) }

\* readCalibratedValuesSingle returning the scaled reading as it is: a variant
\* the property of the calibrated reads must tell from the code's.
readCalibratedValuesSingle_Uncalibrated(m, saturated, max_retries, delay_time) ==
    { RetVec([sc EXCEPT !.scaled = Underlying(sc)], Calibrate(sc.vec, Ones))
      : sc \in readScaledValuesSingle(m, saturated, max_retries, delay_time) }

\* return readScaledValuesSingle(saturated, max_retries, delay_time) * calibration;
readCalibratedValuesSingle(m, saturated, max_retries, delay_time) ==
    { RetVec([sc EXCEPT !.scaled = Underlying(sc)],
             Calibrate(sc.vec, sc.calibration))
      : sc \in readScaledValuesSingle(m, saturated, max_retries, delay_time) }

-----------------------------------------------------------------------------
(* HMC5883L: the self test and the calibration *)

\* The body of the two tests leaving the bias in place when the measurement
\* failed: a variant the properties of the tests must tell from the code's.
BiasTest_RestoresOnSuccess(m, mode, saturated, max_retries, delay_time) ==
    UNION {
        LET m1 == [sb EXCEPT !.err_code = sb.rv] IN
        IF m1.err_code # 0 THEN {RetVec(m1, <<0, 0, 0>>)}
        ELSE UNION {
            IF rd.err_code # 0 THEN {RetVec(rd, <<0, 0, 0>>)}
            ELSE UNION {
                LET m2 == [rs EXCEPT !.err_code = rs.rv]
                IN IF m2.err_code # 0 THEN {RetVec(m2, <<0, 0, 0>>)}
                   ELSE {RetVec(m2, rd.vec)}
                : rs \in setBiasMode(rd, HMC_BIAS_NONE) }
            : rd \in readScaledValuesSingle(m1, saturated, max_retries, delay_time) }
        : sb \in setBiasMode(m, mode) }

\* The body runPosTest and runNegTest share: set the bias mode, take a single
\* measurement, set the bias mode back to none whatever the measurement gave,
\* and keep the first error.
BiasTest(m, mode, saturated, max_retries, delay_time) ==
    UNION {
        LET m1 == [sb EXCEPT !.err_code = sb.rv] IN
        IF m1.err_code # 0 THEN {RetVec(m1, <<0, 0, 0>>)}
        ELSE UNION {
            UNION {
                LET old_ec == rd.err_code
                    m2 == [rs EXCEPT !.err_code = IF rs.rv = 0 THEN old_ec ELSE rs.rv]
                IN IF m2.err_code # 0 THEN {RetVec(m2, <<0, 0, 0>>)}
                   ELSE {RetVec(m2, rd.vec)}
                : rs \in setBiasMode(rd, HMC_BIAS_NONE) }
            : rd \in readScaledValuesSingle(m1, saturated, max_retries, delay_time) }
        : sb \in setBiasMode(m, mode) }

runPosTest(m, saturated, max_retries, delay_time) ==
    BiasTest(m, HMC_BIAS_POSITIVE, saturated, max_retries, delay_time)

runNegTest(m, saturated, max_retries, delay_time) ==
    BiasTest(m, HMC_BIAS_NEGATIVE, saturated, max_retries, delay_time)

\* calibration = (pos_test + neg_test) / 2.0, then each axis divided by its
\* bias field; the readings are in hundredths of a milliGauss.
CalibrationOf(pos_test, neg_test) ==
    <<Frac(pos_test[1] + neg_test[1], 2 * 100 * HMC_BIAS_XY),
      Frac(pos_test[2] + neg_test[2], 2 * 100 * HMC_BIAS_XY),
      Frac(pos_test[3] + neg_test[3], 2 * 100 * HMC_BIAS_Z)>>

\* What getCalibration sees when a test returns: the number of transactions
\* issued so far, and err_code.
TestRun(t) == [last |-> Len(t.log), err_code |-> t.err_code]

\* getCalibration going on to the negative test when the positive test
\* failed: a variant the properties of getCalibration must tell from the code's.
getCalibration_RunsBothTests(m, update, saturated, max_retries, delay_time) ==
    IF ~update THEN {RetVec(m, m.calibration)}
    ELSE UNION {
        UNION {
            LET done == [n EXCEPT !.tests = <<TestRun(p), TestRun(n)>>] IN
            IF n.err_code # 0 \/ p.err_code # 0 THEN {RetVec(done, Zeros)}
            ELSE LET c == CalibrationOf(p.vec, n.vec) IN
                 {RetVec([done EXCEPT !.calibration = c, !.pos_test = p.vec,
                                      !.neg_test = n.vec], c)}
            : n \in runNegTest(p, saturated, max_retries, delay_time) }
        : p \in runPosTest(m, saturated, max_retries, delay_time) }

\* getCalibration running the tests whatever update is: a variant the property
\* of the cached calibration must tell from the code's.
getCalibration_AlwaysUpdates(m, update, saturated, max_retries, delay_time) ==
    UNION {
        IF p.err_code # 0
        THEN {RetVec([p EXCEPT !.tests = <<TestRun(p)>>], Zeros)}
        ELSE UNION {
            LET done == [n EXCEPT !.tests = <<TestRun(p), TestRun(n)>>] IN
            IF n.err_code # 0 THEN {RetVec(done, Zeros)}
            ELSE LET c == CalibrationOf(p.vec, n.vec) IN
                 {RetVec([done EXCEPT !.calibration = c, !.pos_test = p.vec,
                                      !.neg_test = n.vec], c)}
            : n \in runNegTest(p, saturated, max_retries, delay_time) }
        : p \in runPosTest(m, saturated, max_retries, delay_time) }

\* The value returned is vec; pos_test and neg_test are the method's locals,
\* tests what each test that was run left (transactions so far, err_code).
getCalibration(m, update, saturated, max_retries, delay_time) ==
    IF ~update THEN {RetVec(m, m.calibration)}
    ELSE UNION {
        IF p.err_code # 0
        THEN {RetVec([p EXCEPT !.tests = <<TestRun(p)>>], Zeros)}
        ELSE UNION {
            LET done == [n EXCEPT !.tests = <<TestRun(p), TestRun(n)>>] IN
            IF n.err_code # 0 THEN {RetVec(done, Zeros)}
            ELSE LET c == CalibrationOf(p.vec, n.vec) IN
                 {RetVec([done EXCEPT !.calibration = c, !.pos_test = p.vec,
                                      !.neg_test = n.vec], c)}
            : n \in runNegTest(p, saturated, max_retries, delay_time) }
        : p \in runPosTest(m, saturated, max_retries, delay_time) }

-----------------------------------------------------------------------------
(* HMC5883L: initialize *)

\* The configuration step that records the code of a failed setter and goes
\* on: a variant the properties of initialize must tell from the code's.
ConfigStep_GoesOn(S) ==
    { IF y.rv # 0 THEN [y EXCEPT !.err_code = y.rv] ELSE y : y \in S }

\* if (rv = setX(...)) { err_code = rv; return rv; }
ConfigStep(S) ==
    { IF y.rv # 0 THEN [y EXCEPT !.err_code = y.rv, !.done = TRUE] ELSE y : y \in S }

\* if (!(rv = getX(true))) { if (err_code) { return err_code; } }
RefreshStep(S) ==
    { IF y.rv = 0 /\ y.err_code # 0 THEN [Ret(y, y.err_code) EXCEPT !.done = TRUE]
      ELSE y : y \in S }

\* The start of initialize without the reset of the calibration: a variant the
\* properties of initialize must tell from the code's.
StartDevice_KeepsCalibration(m) == m

\* I2CDevice.start(), which issues no transaction, and the reset of the
\* calibration, both ahead of the branch on noConfig.
StartDevice(m) == [m EXCEPT !.calibration = Ones]

\* The value returned is rv.
\* AndThen runs Step on the machines of S that have not returned yet.
initialize(m, noConfig) ==
    LET AndThen(S, Step(_)) ==
            UNION { IF x.done THEN {x} ELSE Step(x) : x \in S }
        m0 == StartDevice(m)
        s1 == IF ~noConfig
              THEN ConfigStep(setGain(m0, HMC_GAIN130))
              ELSE RefreshStep(getGain(m0, TRUE))
        s2 == IF ~noConfig
              THEN AndThen(s1, LAMBDA x : ConfigStep(setAveragingRate(x, HMC_AVG1)))
              ELSE AndThen(s1, LAMBDA x : RefreshStep(getAveragingRate(x, TRUE)))
        s3 == IF ~noConfig
              THEN AndThen(s2, LAMBDA x : ConfigStep(setOutputRate(x, HMC_RATE1500)))
              ELSE AndThen(s2, LAMBDA x : RefreshStep(getOutputRate(x, TRUE)))
        s4 == IF ~noConfig
              THEN AndThen(s3, LAMBDA x :
                       ConfigStep(setMeasurementMode(x, HMC_MeasurementIdle)))
              ELSE AndThen(s3, LAMBDA x : RefreshStep(getMeasurementMode(x, TRUE)))
        s5 == IF ~noConfig
              THEN AndThen(s4, LAMBDA x : ConfigStep(setBiasMode(x, HMC_BIAS_NONE)))
              ELSE AndThen(s4, LAMBDA x : RefreshStep(getBiasMode(x, TRUE)))
    IN { [x EXCEPT !.done = FALSE] : x \in s5 }

-----------------------------------------------------------------------------
(* The state machine *)

NoCall == [name |-> "none", arg |-> 0]

\* The object after HMC5883L::HMC5883L(): the constructor only builds the
\* I2CDev, so every field holds whatever its memory held.
Init ==
    /\ \E mem \in IndeterminateObjects :
        /\ gain = mem.byte
        /\ averagingRate = mem.byte
        /\ outputRate = mem.byte
        /\ measurementMode = mem.byte
        /\ biasMode = mem.byte
        /\ err_code = mem.byte
        /\ calibration = mem.vec
    /\ regs \in InitialRegs
    /\ op = NoCall
    /\ ret = 0
    /\ busLog = <<>>
    /\ initialized = FALSE
    /\ inits = 0
    /\ session \in Sessions
    /\ callers = <<>>

\* The driver is idle, in a run that uses the methods of one of the groups S.
Ready(S) == op = NoCall /\ session \in S

\* The call name(arg) ends as machine o and returns r.
Commit(name, arg, o, r) ==
    /\ gain' = o.gain
    /\ averagingRate' = o.averagingRate
    /\ outputRate' = o.outputRate
    /\ measurementMode' = o.measurementMode
    /\ biasMode' = o.biasMode
    /\ err_code' = o.err_code
    /\ calibration' = o.calibration
    /\ regs' = o.regs
    /\ op' = [name |-> name, arg |-> arg]
    /\ ret' = r
    /\ busLog' = o.log
    /\ initialized' = (initialized \/ (name = "initialize" /\ r = 0))
    /\ inits' = IF name = "initialize" THEN inits + 1 ELSE inits
    /\ UNCHANGED <<session, callers>>

\* The caller has taken the result of the call; the driver is ready for the
\* next one.
Return ==
    /\ op # NoCall
    /\ op' = NoCall
    /\ ret' = 0
    /\ busLog' = <<>>
    /\ UNCHANGED <<gain, averagingRate, outputRate, measurementMode, biasMode,
                   err_code, calibration, regs, initialized, inits, session,
                   callers>>

DoInitialize(F) ==
    /\ Ready({"Lifecycle"})
    /\ inits < MaxInits
    /\ \E noConfig \in BOOLEAN : \E o \in initialize(Machine(F), noConfig) :
            Commit("initialize", noConfig, o, o.rv)

DoSetGain(F) ==
    /\ Ready({"ConfigB"})
    /\ \E a \in GainArgs : \E o \in setGain(Machine(F), a) :
            Commit("setGain", a, o, o.rv)

DoSetAveragingRate(F) ==
    /\ Ready({"ConfigA"})
    /\ \E a \in AveragingArgs : \E o \in setAveragingRate(Machine(F), a) :
            Commit("setAveragingRate", a, o, o.rv)

DoSetOutputRate(F) ==
    /\ Ready({"ConfigA"})
    /\ \E a \in OutputRateArgs : \E o \in setOutputRate(Machine(F), a) :
            Commit("setOutputRate", a, o, o.rv)

DoSetMeasurementMode(F) ==
    /\ Ready({"Mode"})
    /\ \E a \in ModeArgs : \E o \in setMeasurementMode(Machine(F), a) :
            Commit("setMeasurementMode", a, o, o.rv)

DoSetBiasMode(F) ==
    /\ Ready({"ConfigA"})
    /\ \E a \in BiasArgs : \E o \in setBiasMode(Machine(F), a) :
            Commit("setBiasMode", a, o, o.rv)

DoSetHighSpeedI2CMode(F) ==
    /\ Ready({"Mode", "Lifecycle"})
    /\ \E a \in BOOLEAN : \E o \in setHighSpeedI2CMode(Machine(F), a) :
            Commit("setHighSpeedI2CMode", a, o, o.rv)

DoGetGain(F) ==
    /\ Ready({"ConfigB"})
    /\ \E a \in BOOLEAN : \E o \in getGain(Machine(F), a) :
            Commit("getGain", a, o, o.rv)

DoGetAveragingRate(F) ==
    /\ Ready({"ConfigA"})
    /\ \E a \in BOOLEAN : \E o \in getAveragingRate(Machine(F), a) :
            Commit("getAveragingRate", a, o, o.rv)

DoGetOutputRate(F) ==
    /\ Ready({"ConfigA"})
    /\ \E a \in BOOLEAN : \E o \in getOutputRate(Machine(F), a) :
            Commit("getOutputRate", a, o, o.rv)

DoGetMeasurementMode(F) ==
    /\ Ready({"Mode"})
    /\ \E a \in BOOLEAN : \E o \in getMeasurementMode(Machine(F), a) :
            Commit("getMeasurementMode", a, o, o.rv)

DoGetBiasMode(F) ==
    /\ Ready({"ConfigA"})
    /\ \E a \in BOOLEAN : \E o \in getBiasMode(Machine(F), a) :
            Commit("getBiasMode", a, o, o.rv)

DoGetStatus(F) ==
    /\ Ready({"Mode"})
    /\ \E o \in getStatus(Machine(F)) : Commit("getStatus", 0, o,
                   [rv |-> o.rv, isLocked |-> o.locked, isReady |-> o.ready])

DoReadRawValues(F) ==
    /\ Ready({"ConfigB"})
    /\ \E sat \in BOOLEAN : \E o \in readRawValues(Machine(F), sat) :
            Commit("readRawValues", sat, o,
                   [vec |-> o.vec, sat |-> o.sat, data |-> o.data])

DoReadScaledValues(F) ==
    /\ Ready({"ConfigB", "Lifecycle"})
    /\ \E sat \in BOOLEAN : \E o \in readScaledValues(Machine(F), sat) :
            Commit("readScaledValues", sat, o,
                   [vec |-> o.vec, sat |-> o.sat, data |-> o.data])

DoReadCalibratedValues(F) ==
    /\ Ready({"ConfigB"})
    /\ \E sat \in BOOLEAN : \E o \in readCalibratedValues(Machine(F), sat) :
            Commit("readCalibratedValues", sat, o,
                   [vec |-> o.vec, sat |-> o.sat, scaled |-> o.scaled])

DoReadScaledValuesSingle(F) ==
    /\ Ready({"Mode"})
    /\ \E sat \in BOOLEAN, n \in RetryArgs, d \in DelayArgs :
            \E o \in readScaledValuesSingle(Machine(F), sat, n, d) :
                Commit("readScaledValuesSingle",
                       [saturated |-> sat, max_retries |-> n, delay_time |-> d], o,
                       [vec |-> o.vec, sat |-> o.sat, mode |-> o.mode])

DoReadCalibratedValuesSingle(F) ==
    /\ Ready({"Mode"})
    /\ \E sat \in BOOLEAN, n \in RetryArgs, d \in DelayArgs :
            \E o \in readCalibratedValuesSingle(Machine(F), sat, n, d) :
                Commit("readCalibratedValuesSingle",
                       [saturated |-> sat, max_retries |-> n, delay_time |-> d], o,
                       [vec |-> o.vec, sat |-> o.sat, scaled |-> o.scaled])

\* The calibration is still what the constructor left: a run of the self test
\* session calibrates the driver once, and runs the two tests before that.
Uncalibrated == calibration \in {mem.vec : mem \in IndeterminateObjects}

DoRunPosTest(F) ==
    /\ Ready({"SelfTest"}) /\ Uncalibrated
    /\ \E sat \in BOOLEAN, n \in SelfTestRetryArgs :
            \E o \in runPosTest(Machine(F), sat, n, HMC_SLEEP_DELAY) :
                Commit("runPosTest", [saturated |-> sat, max_retries |-> n], o,
                       [vec |-> o.vec, sat |-> o.sat])

DoRunNegTest(F) ==
    /\ Ready({"SelfTest"}) /\ Uncalibrated
    /\ \E sat \in BOOLEAN, n \in SelfTestRetryArgs :
            \E o \in runNegTest(Machine(F), sat, n, HMC_SLEEP_DELAY) :
                Commit("runNegTest", [saturated |-> sat, max_retries |-> n], o,
                       [vec |-> o.vec, sat |-> o.sat])

DoGetCalibration(F) ==
    /\ Ready({"SelfTest"})
    /\ \E update \in BOOLEAN, sat \in BOOLEAN, n \in SelfTestRetryArgs,
          d \in DelayArgs :
            /\ update => Uncalibrated
            /\ \E o \in getCalibration(Machine(F), update, sat, n, d) :
                Commit("getCalibration",
                       [update |-> update, saturated |-> sat, max_retries |-> n,
                        delay_time |-> d], o,
                       [vec |-> o.vec, sat |-> o.sat, pos_test |-> o.pos_test,
                        neg_test |-> o.neg_test, tests |-> o.tests])

\* The device finishes a single measurement and puts itself into idle mode.
DeviceIdle ==
    /\ op = NoCall
    /\ And8(regs[ModeRegister], 3) = HMC_MeasurementSingle
    /\ regs' = [regs EXCEPT ![ModeRegister] =
                    Or8(And8(@, 252), HMC_MeasurementIdle)]
    /\ UNCHANGED <<gain, averagingRate, outputRate, measurementMode, biasMode,
                   err_code, calibration, op, ret, busLog, initialized, inits,
                   session, callers>>

\* One public call, on a bus that can fail with the codes of F.
Call(F) ==
    \/ DoInitialize(F)
    \/ DoSetGain(F)
    \/ DoSetAveragingRate(F)
    \/ DoSetOutputRate(F)
    \/ DoSetMeasurementMode(F)
    \/ DoSetBiasMode(F)
    \/ DoSetHighSpeedI2CMode(F)
    \/ DoGetGain(F)
    \/ DoGetAveragingRate(F)
    \/ DoGetOutputRate(F)
    \/ DoGetMeasurementMode(F)
    \/ DoGetBiasMode(F)
    \/ DoGetStatus(F)
    \/ DoReadRawValues(F)
    \/ DoReadScaledValues(F)
    \/ DoReadCalibratedValues(F)
    \/ DoReadScaledValuesSingle(F)
    \/ DoReadCalibratedValuesSingle(F)

Next == Call(TransportCodes) \/ Return \/ DeviceIdle

Spec == Init /\ [][Next]_vars

\* The driver on a bus that never fails and a device that never changes its
\* mode by itself.
NextReliable == Call({}) \/ Return

SpecReliable == Init /\ [][NextReliable]_vars

\* The driver used for its self test only, from construction, on a bus whose
\* transactions can fail with a missing acknowledge.
InitSelfTest ==
    /\ \E mem \in IndeterminateObjects :
        /\ gain = mem.byte
        /\ averagingRate = mem.byte
        /\ outputRate = mem.byte
        /\ measurementMode = mem.byte
        /\ biasMode = mem.byte
        /\ err_code = mem.byte
        /\ calibration = mem.vec
    /\ regs \in InitialRegs
    /\ op = NoCall
    /\ ret = 0
    /\ busLog = <<>>
    /\ initialized = FALSE
    /\ inits = 0
    /\ session = "SelfTest"
    /\ callers = <<>>

NextSelfTest ==
    \/ DoRunPosTest({EC_NACK_ADDR})
    \/ DoRunNegTest({EC_NACK_ADDR})
    \/ DoGetCalibration({EC_NACK_ADDR})
    \/ Return

SpecSelfTest == InitSelfTest /\ [][NextSelfTest]_vars

-----------------------------------------------------------------------------
(* Two callers sharing one driver object, on a bus that never fails *)

\* The callers, and the setters of Config A they call: each caller makes one
\* call, and nothing orders the steps of one caller against the other's.
Callers == {1, 2}

ConfigASetters == {"setAveragingRate", "setOutputRate", "setBiasMode"}

SetterArgs(name) ==
    CASE name = "setAveragingRate" -> AveragingArgs
      [] name = "setOutputRate" -> OutputRateArgs
      [] name = "setBiasMode" -> BiasArgs

Setter(name, m, a) ==
    CASE name = "setAveragingRate" -> setAveragingRate(m, a)
      [] name = "setOutputRate" -> setOutputRate(m, a)
      [] name = "setBiasMode" -> setBiasMode(m, a)

\* A caller that has not called yet.
IdleCaller ==
    [name |-> "none", arg |-> 0, pc |-> "idle", seen |-> 0, rv |-> 0,
     readAt |-> 0, writeAt |-> 0]

\* The register value a caller's write is computed from, were the read and the
\* write one indivisible step: a variant the property of the interleaved
\* setters must tell from the code's.
Snapshot_Fresh(c) == regs[ConfigRegisterA]

\* The register value a caller's write is computed from: the byte its own
\* read_data_byte returned, held in the local configRegister.
Snapshot(c) == callers[c].seen

\* Caller c enters a setter: the validation of the argument, which returns
\* at once when the argument is out of range.
CallerEnters(c) ==
    /\ callers[c].pc = "idle"
    /\ \E name \in ConfigASetters : \E a \in SetterArgs(name) :
        \E o \in Setter(name, Machine({}), a) :
            callers' = [callers EXCEPT ![c] =
                IF o.log = <<>>
                THEN [@ EXCEPT !.name = name, !.arg = a, !.pc = "done", !.rv = o.rv]
                ELSE [@ EXCEPT !.name = name, !.arg = a, !.pc = "entered"]]
    /\ UNCHANGED <<gain, averagingRate, outputRate, measurementMode, biasMode,
                   err_code, calibration, regs, op, ret, busLog, initialized,
                   inits, session>>

\* configRegister = I2CDevice.read_data_byte(ConfigRegisterA) & mask;
\* err_code = I2CDevice.get_err_code()
CallerReads(c) ==
    /\ callers[c].pc = "entered"
    /\ \E r \in read_data_byte(Machine({}), ConfigRegisterA) :
        /\ err_code' = get_err_code(r)
        /\ busLog' = busLog \o r.log
        /\ callers' = [callers EXCEPT ![c] =
                [@ EXCEPT !.pc = "read", !.seen = r.val,
                          !.readAt = Len(busLog) + 1]]
    /\ UNCHANGED <<gain, averagingRate, outputRate, measurementMode, biasMode,
                   calibration, regs, op, ret, initialized, inits, session>>

\* err_code = I2CDevice.write_data(ConfigRegisterA, bits | configRegister);
\* the update of the cache; return 0.  The rest of the setter, run on the
\* byte the caller read: what it writes goes to the register as it is now.
CallerWrites(c) ==
    /\ callers[c].pc = "read"
    /\ \E o \in Setter(callers[c].name,
                       [Machine({}) EXCEPT !.regs[ConfigRegisterA] = Snapshot(c)],
                       callers[c].arg) :
        /\ regs' = [regs EXCEPT ![ConfigRegisterA] = o.regs[ConfigRegisterA]]
        /\ averagingRate' = o.averagingRate
        /\ outputRate' = o.outputRate
        /\ biasMode' = o.biasMode
        /\ err_code' = o.err_code
        /\ busLog' = Append(busLog, o.log[Len(o.log)])
        /\ callers' = [callers EXCEPT ![c] =
                [@ EXCEPT !.pc = "done", !.rv = o.rv,
                          !.writeAt = Len(busLog) + 1]]
    /\ UNCHANGED <<gain, measurementMode, calibration, op, ret, initialized,
                   inits, session>>

InitInterleaved ==
    /\ \E mem \in IndeterminateObjects :
        /\ gain = mem.byte
        /\ averagingRate = mem.byte
        /\ outputRate = mem.byte
        /\ measurementMode = mem.byte
        /\ biasMode = mem.byte
        /\ err_code = mem.byte
        /\ calibration = mem.vec
    /\ regs \in InitialRegs
    /\ op = NoCall
    /\ ret = 0
    /\ busLog = <<>>
    /\ initialized = FALSE
    /\ inits = 0
    /\ session = "Interleaved"
    /\ callers = [c \in Callers |-> IdleCaller]

NextInterleaved ==
    \/ \E c \in Callers : CallerEnters(c)
    \/ \E c \in Callers : CallerReads(c)
    \/ \E c \in Callers : CallerWrites(c)

SpecInterleaved == InitInterleaved /\ [][NextInterleaved]_vars

-----------------------------------------------------------------------------
(* Vocabulary of the properties *)

\* The positions of busLog holding a read (resp. a write) of register reg.
ReadsOf(reg) ==
    {i \in DOMAIN busLog : busLog[i][1] = "r" /\ busLog[i][2] = reg}
WritesOf(reg) ==
    {i \in DOMAIN busLog : busLog[i][1] = "w" /\ busLog[i][2] = reg}

\* The bit fields of the device registers.
GainBits(r) == Shr8(r[ConfigRegisterB], 5)
AveragingBits(r) == Shr8(And8(r[ConfigRegisterA], 96), 5)
OutputRateBits(r) == Shr8(And8(r[ConfigRegisterA], 28), 2)
BiasBits(r) == And8(r[ConfigRegisterA], 3)
ModeBits(r) == And8(r[ModeRegister], 3)
HighSpeedBit(r) == Bit(r[ModeRegister], 7)

\* x names the call that has just returned.
Called(x) == op.name = x

-----------------------------------------------------------------------------
(* C1 *)

\* C1 (as claimed): in readScaledValuesSingle with max_retries > 0, a status
\* poll that succeeds and reports ready and not locked is the last poll, is
\* followed by exactly one read of the data registers, and the call returns
\* the scaled reading with no error recorded.  Stated on a bus that never
\* fails, where nothing but the poll decides the outcome.
C1_ReadyPollEndsPollingAndReads ==
    (Called("readScaledValuesSingle") /\ op.arg.max_retries > 0) =>
        \A i \in ReadsOf(StatusRegister) :
            (busLog[i][4] = 0 /\ isReady(busLog[i][3]) /\ ~isLocked(busLog[i][3])) =>
                /\ \A j \in ReadsOf(StatusRegister) : j <= i
                /\ Cardinality(ReadsOf(DataRegister)) = 1
                /\ err_code = 0
                /\ ret.vec \in {o.vec : o \in readScaledValues(Machine({}), FALSE)}

-----------------------------------------------------------------------------
(* C2 *)

\* C2 (as claimed): a setHighSpeedI2CMode(enabled) call that succeeds on the
\* bus leaves bit 7 of the Mode register equal to enabled.
C2_HighSpeedBitFollowsArgument ==
    (Called("setHighSpeedI2CMode") /\ ret = 0) =>
        HighSpeedBit(regs) = (IF op.arg THEN 1 ELSE 0)

-----------------------------------------------------------------------------
(* C3 *)

\* C3 (as claimed): setHighSpeedI2CMode leaves bits 0-1 of the Mode register
\* unchanged and setMeasurementMode leaves bit 7 of the Mode register
\* unchanged, whatever the register held.
C3_ModeSettersKeepForeignBits ==
    [][ /\ op'.name = "setHighSpeedI2CMode" => ModeBits(regs') = ModeBits(regs)
        /\ op'.name = "setMeasurementMode" => HighSpeedBit(regs') = HighSpeedBit(regs)
      ]_vars

-----------------------------------------------------------------------------
(* C4 *)

\* C4: a successful setAveragingRate, setOutputRate or setBiasMode puts its
\* argument into its own bit field of Config A (bits 5-6, 2-4, 0-1), leaves
\* every other bit of the register as it was, and leaves the cached values of
\* the other two settings unchanged.
C4_ConfigAFieldIsolation ==
    [][ /\ (op'.name = "setAveragingRate" /\ ret' = 0) =>
              /\ AveragingBits(regs') = op'.arg
              /\ And8(regs'[ConfigRegisterA], 159) = And8(regs[ConfigRegisterA], 159)
              /\ outputRate' = outputRate /\ biasMode' = biasMode
        /\ (op'.name = "setOutputRate" /\ ret' = 0) =>
              /\ OutputRateBits(regs') = op'.arg
              /\ And8(regs'[ConfigRegisterA], 227) = And8(regs[ConfigRegisterA], 227)
              /\ averagingRate' = averagingRate /\ biasMode' = biasMode
        /\ (op'.name = "setBiasMode" /\ ret' = 0) =>
              /\ BiasBits(regs') = op'.arg
              /\ And8(regs'[ConfigRegisterA], 252) = And8(regs[ConfigRegisterA], 252)
              /\ averagingRate' = averagingRate /\ outputRate' = outputRate
      ]_vars

\* All three settings of Config A hold values that only their setters can have
\* put there, and one of them has just been changed with success.
C4_Witness ==
    /\ Called("setAveragingRate") /\ ret = 0 /\ op.arg = 3
    /\ averagingRate = 3 /\ outputRate = 6 /\ biasMode = 2
    /\ regs[ConfigRegisterA] = 122

-----------------------------------------------------------------------------
(* C5 *)

\* C5 (as claimed): once initialize has returned 0, on a bus that never fails
\* and a device that never changes its mode by itself, every cached setting
\* equals its bit field in the device's registers.
C5_CacheCoherence ==
    initialized =>
        /\ gain = GainBits(regs)
        /\ averagingRate = AveragingBits(regs)
        /\ outputRate = OutputRateBits(regs)
        /\ measurementMode = ModeBits(regs)
        /\ biasMode = BiasBits(regs)

-----------------------------------------------------------------------------
(* C6 *)

\* C6: a setGain(g), g in 0..7, that succeeds on the bus has issued the single
\* write of g << 5 to Config B, and a getGain(false) called next returns g
\* without touching the bus.
C6_SetGainThenGetGain ==
    (Called("setGain") /\ op.arg \in 0 .. 7 /\ ret = 0) =>
        /\ busLog = << <<"w", ConfigRegisterB, op.arg * 32, 0>> >>
        /\ regs[ConfigRegisterB] = op.arg * 32
        /\ \A o \in getGain(Machine(TransportCodes), FALSE) :
              o.rv = op.arg /\ o.log = <<>>

\* The highest gain level has been set with success.
C6_Witness ==
    Called("setGain") /\ op.arg = 7 /\ ret = 0 /\ regs[ConfigRegisterB] = 224

-----------------------------------------------------------------------------
(* C7 *)

\* The setters with a range check, their largest valid argument and the code
\* they return above it.
RangeChecked ==
    [setGain |-> <<7, EC_BAD_GAIN_LEVEL>>,
     setAveragingRate |-> <<3, EC_INVALID_NAVG>>,
     setOutputRate |-> <<6, EC_INVALID_OUTRATE>>,
     setMeasurementMode |-> <<2, EC_INVALID_MEASUREMENT_MODE>>,
     setBiasMode |-> <<2, EC_INVALID_BIAS_MODE>>]

\* C7: a setter given an out-of-range value returns its own InvalidParameter
\* code, issues no bus transaction and leaves every cached setting (and the
\* device) unchanged; the five codes differ from each other and from every
\* transport code.
C7_OutOfRangeRejected ==
    [][ /\ \A x \in DOMAIN RangeChecked :
              (op'.name = x /\ op'.arg > RangeChecked[x][1]) =>
                  /\ ret' = RangeChecked[x][2]
                  /\ busLog' = <<>>
                  /\ cache' = cache
                  /\ regs' = regs
        /\ Cardinality({RangeChecked[x][2] : x \in DOMAIN RangeChecked}) = 5
        /\ \A x \in DOMAIN RangeChecked :
              RangeChecked[x][2] \notin (TransportCodes \cup {EC_NO_ERR})
      ]_vars

\* setOutputRate(7), one above the last rate, has been rejected.
C7_Witness ==
    /\ Called("setOutputRate") /\ op.arg = 7
    /\ ret = EC_INVALID_OUTRATE /\ busLog = <<>>

-----------------------------------------------------------------------------
(* C8 *)

\* The read-modify-write setters.
ReadModifyWriteSetters ==
    {"setAveragingRate", "setOutputRate", "setMeasurementMode", "setBiasMode",
     "setHighSpeedI2CMode"}

\* C8: in a read-modify-write setter, a failed register read is the only
\* transaction of the call (no write is issued), a failed read or write makes
\* the call return the transport error and leaves the cached settings
\* unchanged, and the cached settings change only in a call whose write
\* succeeded.
C8_SetterTransportFailure ==
    [][ (op'.name \in ReadModifyWriteSetters /\ busLog' # <<>>) =>
           /\ busLog'[1][1] = "r"
           /\ busLog'[1][4] # 0 =>
                 /\ Len(busLog') = 1
                 /\ ret' = busLog'[1][4]
                 /\ cache' = cache
           /\ busLog'[1][4] = 0 =>
                 /\ Len(busLog') = 2
                 /\ busLog'[2][1] = "w"
                 /\ ret' = busLog'[2][4]
                 /\ busLog'[2][4] # 0 => cache' = cache
                 /\ (busLog'[2][4] = 0 /\ op'.name # "setHighSpeedI2CMode") =>
                       \/ op'.name = "setAveragingRate" /\ averagingRate' = op'.arg
                       \/ op'.name = "setOutputRate" /\ outputRate' = op'.arg
                       \/ op'.name = "setMeasurementMode" /\ measurementMode' = op'.arg
                       \/ op'.name = "setBiasMode" /\ biasMode' = op'.arg
      ]_vars

\* setBiasMode has read Config A and failed to write it back.
C8_Witness ==
    /\ Called("setBiasMode") /\ Len(busLog) = 2
    /\ busLog[1][4] = 0 /\ busLog[2][4] = EC_NACK_ADDR
    /\ ret = EC_NACK_ADDR /\ biasMode # op.arg

-----------------------------------------------------------------------------
(* C9 *)

Getters ==
    {"getGain", "getAveragingRate", "getOutputRate", "getMeasurementMode",
     "getBiasMode"}

\* The cached setting a getter returns.
CachedBy(x) ==
    CASE x = "getGain" -> gain
      [] x = "getAveragingRate" -> averagingRate
      [] x = "getOutputRate" -> outputRate
      [] x = "getMeasurementMode" -> measurementMode
      [] x = "getBiasMode" -> biasMode

\* The bit field of the device's registers a getter reads.
FieldReadBy(x, r) ==
    CASE x = "getGain" -> GainBits(r)
      [] x = "getAveragingRate" -> AveragingBits(r)
      [] x = "getOutputRate" -> OutputRateBits(r)
      [] x = "getMeasurementMode" -> ModeBits(r)
      [] x = "getBiasMode" -> BiasBits(r)

\* C9 (as claimed): a getter called with update = true whose register read
\* fails surfaces the transport error (as err_code and as the value returned)
\* and leaves its cached value unchanged; when the read succeeds the cached
\* value becomes the bit field of the register.
C9_GetterReadFailure ==
    [][ \A x \in Getters :
           (op'.name = x /\ op'.arg = TRUE /\ busLog' # <<>>) =>
               /\ busLog'[1][4] # 0 =>
                     /\ err_code' = busLog'[1][4]
                     /\ ret' = busLog'[1][4]
                     /\ CachedBy(x)' = CachedBy(x)
               /\ busLog'[1][4] = 0 =>
                     CachedBy(x)' = FieldReadBy(x, regs)
      ]_vars

-----------------------------------------------------------------------------
(* C10 *)

\* C10: a getter called with update = false returns the cached value, issues
\* no bus transaction, and changes neither a cached setting nor err_code, the
\* one exception being getMeasurementMode while the cached mode is single-shot.
C10_CachedGetterIsPure ==
    [][ \A x \in Getters :
           (op'.name = x /\ op'.arg = FALSE
            /\ ~(x = "getMeasurementMode" /\ measurementMode = HMC_MeasurementSingle)) =>
               /\ ret' = CachedBy(x)
               /\ busLog' = <<>>
               /\ cache' = cache
               /\ err_code' = err_code
               /\ regs' = regs
      ]_vars

\* getOutputRate(false) has returned a rate that a setter or a refresh cached.
C10_Witness ==
    /\ Called("getOutputRate") /\ op.arg = FALSE
    /\ ret = 6 /\ outputRate = 6 /\ busLog = <<>>

-----------------------------------------------------------------------------
(* C11 *)

\* The transactions of a complete initialize(false), in order: the write of
\* the gain, then the read and the write of each read-modify-write setter.
ConfigTransactions ==
    << <<"w", ConfigRegisterB>>,
       <<"r", ConfigRegisterA>>, <<"w", ConfigRegisterA>>,
       <<"r", ConfigRegisterA>>, <<"w", ConfigRegisterA>>,
       <<"r", ModeRegister>>, <<"w", ModeRegister>>,
       <<"r", ConfigRegisterA>>, <<"w", ConfigRegisterA>> >>

\* The last successful write of busLog to register reg, 0 if there is none.
LastWriteTo(reg) ==
    LET W == {i \in WritesOf(reg) : busLog[i][4] = 0}
    IN IF W = {} THEN 0 ELSE CHOOSE i \in W : \A j \in W : j <= i

\* C11: initialize(false) issues the transactions of the five default setters
\* in the order gain, averaging rate, output rate, measurement mode, bias mode;
\* it ends at the first transaction that fails, returning its code, with
\* every register written before still holding what was written; when all
\* succeed it returns 0 with gain 1, averaging 0, output rate 4, mode idle,
\* bias none cached and in the registers, and calibration (1,1,1).
C11_InitializeWritesDefaultsInOrder ==
    (Called("initialize") /\ op.arg = FALSE) =>
        LET n == Len(busLog) IN
        /\ n \in 1 .. Len(ConfigTransactions)
        /\ \A i \in 1 .. n :
              /\ <<busLog[i][1], busLog[i][2]>> = ConfigTransactions[i]
              /\ i < n => busLog[i][4] = 0
        /\ busLog[1][4] = 0 => busLog[1][3] = 32
        /\ busLog[n][4] # 0 => ret = busLog[n][4] /\ err_code = ret
        /\ busLog[n][4] = 0 =>
              /\ n = Len(ConfigTransactions)
              /\ ret = 0
              /\ cache = <<HMC_GAIN130, HMC_AVG1, HMC_RATE1500,
                           HMC_MeasurementIdle, HMC_BIAS_NONE>>
              /\ GainBits(regs) = HMC_GAIN130
              /\ AveragingBits(regs) = HMC_AVG1
              /\ OutputRateBits(regs) = HMC_RATE1500
              /\ ModeBits(regs) = HMC_MeasurementIdle
              /\ BiasBits(regs) = HMC_BIAS_NONE
        /\ \A reg \in {ConfigRegisterA, ConfigRegisterB, ModeRegister} :
              LastWriteTo(reg) # 0 => regs[reg] = busLog[LastWriteTo(reg)][3]
        /\ calibration = Ones

\* initialize(false) has failed in the write of the output rate, on a device
\* whose registers held 0xFF: the gain and the averaging rate stay written.
C11_Witness ==
    /\ Called("initialize") /\ op.arg = FALSE
    /\ Len(busLog) = 5 /\ ret = EC_I2C_OTHER
    /\ gain = HMC_GAIN130 /\ regs[ConfigRegisterB] = 32
    /\ averagingRate = HMC_AVG1 /\ regs[ConfigRegisterA] = 159

-----------------------------------------------------------------------------
(* C12 *)

\* The transactions of busLog that failed.
Failures == {i \in DOMAIN busLog : busLog[i][4] # 0}

\* C12 (as claimed): initialize(true) returns 0 exactly when its five register
\* reads all succeed; a failed read is the last transaction of the call and
\* its code is the value returned.
C12_RefreshStopsAtFirstFailure ==
    (Called("initialize") /\ op.arg = TRUE) =>
        /\ ret = 0 <=> (Len(busLog) = 5 /\ Failures = {})
        /\ Failures # {} =>
              /\ Failures = {Len(busLog)}
              /\ ret = busLog[Len(busLog)][4]

-----------------------------------------------------------------------------
(* C13 *)

\* C13 (as claimed): initialize(true) issues no register write and leaves the
\* calibration as it was before the call.
C13_RefreshKeepsCalibration ==
    [][ (op'.name = "initialize" /\ op'.arg = TRUE) =>
           /\ \A i \in DOMAIN busLog' : busLog'[i][1] = "r"
           /\ calibration' = calibration
      ]_vars

\* C13 (amended): initialize(true) issues no register write, and it sets the
\* calibration to (1,1,1) as initialize(false) does.
C13_RefreshResetsCalibration ==
    (Called("initialize") /\ op.arg = TRUE) =>
        /\ \A i \in DOMAIN busLog : busLog[i][1] = "r"
        /\ busLog # <<>>
        /\ calibration = Ones

\* initialize(true) has read the five settings of a driver whose calibration
\* was not (1,1,1) and whose registers held 0xFF.
C13_Witness ==
    /\ Called("initialize") /\ op.arg = TRUE
    /\ Len(busLog) = 5 /\ Failures = {}
    /\ cache = <<7, 3, 7, 3, 3>>
    /\ calibration = Ones

-----------------------------------------------------------------------------
(* C14 *)

\* The status polls of busLog that succeeded and reported ready and unlocked.
ReadyPolls ==
    {i \in ReadsOf(StatusRegister) :
        busLog[i][4] = 0 /\ isReady(busLog[i][3]) /\ ~isLocked(busLog[i][3])}

\* C14 (as claimed): with max_retries = 0 readScaledValuesSingle polls the
\* status register until it reports ready and unlocked, so a call that has
\* read the data registers has seen such a poll before the read.
C14_ZeroRetriesPollsUntilReady ==
    (Called("readScaledValuesSingle") /\ op.arg.max_retries = 0) =>
        \A d \in ReadsOf(DataRegister) : \E i \in ReadyPolls : i < d

-----------------------------------------------------------------------------
(* C15 *)

\* C15 (as claimed): with max_retries = N > 0, readScaledValuesSingle never
\* polls the status register more than N times, and when the device has been
\* put into single-measurement mode and no poll reports ready, it polls
\* exactly N times and then reads the data registers once.  Stated on a bus
\* that never fails.
C15_PollsAtMostMaxRetries ==
    (Called("readScaledValuesSingle") /\ op.arg.max_retries > 0
     /\ op.arg.delay_time >= 0) =>
        /\ Cardinality(ReadsOf(StatusRegister)) <= op.arg.max_retries
        /\ ( /\ \E w \in WritesOf(ModeRegister) : busLog[w][4] = 0
             /\ \A i \in ReadsOf(StatusRegister) :
                   busLog[i][4] = 0 /\ ~isReady(busLog[i][3]) ) =>
              /\ Cardinality(ReadsOf(StatusRegister)) = op.arg.max_retries
              /\ Cardinality(ReadsOf(DataRegister)) = 1

-----------------------------------------------------------------------------
(* C16 *)

-----------------------------------------------------------------------------
(* C17 *)

\* C17: getCalibration(update = true) with a positive-test reading of
\* (1160, 1160, 1080) and a negative-test reading of (-1160, -1160, -1080)
\* stores and returns the calibration (1.0, 1.0, 1.0); in general the stored
\* calibration is the average of the two readings divided per axis by 1160
\* (X, Y) and 1080 (Z).
C17_CalibrationComputation ==
    (Called("getCalibration") /\ op.arg.update /\ err_code = 0) =>
        /\ calibration = CalibrationOf(ret.pos_test, ret.neg_test)
        /\ (ret.pos_test = <<116000, 116000, 108000>>
            /\ ret.neg_test = <<-116000, -116000, -108000>>) =>
                (calibration = Ones /\ ret.vec = Ones)

-----------------------------------------------------------------------------
(* C18 *)

\* The big-endian two's-complement value of the byte pair hi, lo.
BigEndian16(hi, lo) == 256 * hi + lo - 65536 * Bit(hi, 7)

\* C18: a successful readRawValues returns x decoded from bytes 0-1, z from
\* bytes 2-3 and y from bytes 4-5 of the data registers, each pair big-endian
\* two's complement; bytes 00 0A F0 00 00 14 give x = 10, z = -4096, y = 20.
C18_RawValuesDecoding ==
    (Called("readRawValues") /\ Failures = {}) =>
        /\ ret.vec[1] = BigEndian16(ret.data[1], ret.data[2])
        /\ ret.vec[3] = BigEndian16(ret.data[3], ret.data[4])
        /\ ret.vec[2] = BigEndian16(ret.data[5], ret.data[6])
        /\ ret.data = <<0, 10, 240, 0, 0, 20>> => ret.vec = <<10, 20, -4096>>

\* The bytes of the example have been read.
C18_Witness ==
    /\ Called("readRawValues") /\ Failures = {}
    /\ ret.data = <<0, 10, 240, 0, 0, 20>>
    /\ ret.vec = <<10, 20, -4096>>

-----------------------------------------------------------------------------
(* C19 *)

\* C19: a successful readRawValues given a saturation output stores a mask
\* whose bits 0 (X), 1 (Y) and 2 (Z) are set exactly for the axes that decode
\* to -4096, and no other bit.
C19_SaturationMaskPerAxis ==
    (Called("readRawValues") /\ op.arg /\ Failures = {}) =>
        /\ ret.sat \in 0 .. 7
        /\ Bit(ret.sat, 0) = 1 <=> ret.vec[1] = -4096
        /\ Bit(ret.sat, 1) = 1 <=> ret.vec[2] = -4096
        /\ Bit(ret.sat, 2) = 1 <=> ret.vec[3] = -4096

\* X and Y are saturated and Z is not.
C19_Witness ==
    /\ Called("readRawValues") /\ op.arg /\ Failures = {}
    /\ ret.vec = <<-4096, -4096, -1>>
    /\ ret.sat = WC_X_SATURATED + WC_Y_SATURATED

-----------------------------------------------------------------------------
(* C20 *)

\* C20: when the read of the six data registers fails, readRawValues,
\* readScaledValues and readCalibratedValues record the transport error in
\* err_code, return the zero vector and issue no other bus transaction.
C20_FailedDataRead ==
    (op.name \in {"readRawValues", "readScaledValues", "readCalibratedValues"}
     /\ Failures # {}) =>
        /\ busLog = << <<"r", DataRegister, 0, err_code>> >>
        /\ err_code \in TransportCodes
        /\ ret.vec = IF Called("readCalibratedValues") THEN Zeros ELSE <<0, 0, 0>>

\* readCalibratedValues has failed to read the data registers.
C20_Witness ==
    /\ Called("readCalibratedValues") /\ busLog # <<>>
    /\ busLog[1][4] = EC_NACK_ADDR /\ err_code = EC_NACK_ADDR
    /\ ret.vec = Zeros

-----------------------------------------------------------------------------
(* C21 *)

\* The table of resolutions of the specification, in hundredths of a
\* milliGauss per count, by gain level.
ResolutionTable ==
    [level \in 0 .. 7 |->
        CASE level = 0 -> 73 [] level = 1 -> 92 [] level = 2 -> 122
          [] level = 3 -> 152 [] level = 4 -> 227 [] level = 5 -> 256
          [] level = 6 -> 303 [] level = 7 -> 435]

\* The raw vector the six data bytes decode to.
RawOf(data) ==
    <<BigEndian16(data[1], data[2]), BigEndian16(data[5], data[6]),
      BigEndian16(data[3], data[4])>>

\* C21: a successful readScaledValues made with a gain level in the cache
\* returns the raw vector multiplied element-wise by the entry of the table
\* {0.73, 0.92, 1.22, 1.52, 2.27, 2.56, 3.03, 4.35} that the level selects;
\* raw (100, 0, 0) at gain level 1 yields (92.0, 0.0, 0.0).
C21_ScaledByGainTable ==
    (Called("readScaledValues") /\ Failures = {} /\ gain \in 0 .. 7) =>
        /\ \A k \in 1 .. 3 : ret.vec[k] = RawOf(ret.data)[k] * ResolutionTable[gain]
        /\ (RawOf(ret.data) = <<100, 0, 0>> /\ gain = 1) => ret.vec = <<9200, 0, 0>>

\* Raw (100, 0, 0) has been read at gain level 1.
C21_Witness ==
    /\ Called("readScaledValues") /\ Failures = {}
    /\ gain = 1 /\ RawOf(ret.data) = <<100, 0, 0>>
    /\ ret.vec = <<9200, 0, 0>>

-----------------------------------------------------------------------------
(* C22 *)

\* The element-wise product of a scaled reading and a calibration vector.
Product(scaled, cal) ==
    [k \in 1 .. 3 |-> Frac(scaled[k] * cal[k][1], cal[k][2])]

\* C22: readCalibratedValues and readCalibratedValuesSingle return the scaled
\* reading of the underlying read multiplied element-wise by the calibration
\* vector, issue the bus transactions of that read and no others, and return
\* (0, 0, 0) with its error when it fails.
C22_CalibratedReads ==
    (op.name \in {"readCalibratedValues", "readCalibratedValuesSingle"}) =>
        /\ ret.vec = Product(ret.scaled.vec, calibration)
        /\ busLog = ret.scaled.log
        /\ err_code = ret.scaled.err_code
        /\ ret.scaled.err_code # 0 => ret.vec = Zeros
        /\ Called("readCalibratedValues") =>
              busLog \in { << <<"r", DataRegister, 0, c>> >> : c \in 0 .. 3 }

\* A single-shot calibrated read has returned a reading that the calibration
\* changed.
C22_Witness ==
    /\ Called("readCalibratedValuesSingle") /\ Failures = {}
    /\ err_code = 0
    /\ calibration = <<Frac(-1, 1), Frac(-1, 1), Frac(-1, 1)>>
    /\ ret.vec = <<Frac(-10000, 1), Frac(0, 1), Frac(0, 1)>>

-----------------------------------------------------------------------------
(* C23 *)

\* C23: getStatus performs one read of the status register; when the read
\* succeeds it returns the two-bit status value (0..3), with isLocked its bit 1
\* and isReady its bit 0; when the transport fails it returns a value >= 4 and
\* records the transport error in err_code.
C23_GetStatus ==
    Called("getStatus") =>
        /\ Len(busLog) = 1
        /\ busLog[1][1] = "r" /\ busLog[1][2] = StatusRegister
        /\ busLog[1][4] = 0 =>
              /\ ret.rv \in 0 .. 3 /\ ret.rv = busLog[1][3] % 4
              /\ ret.isLocked = (Bit(ret.rv, 1) = 1)
              /\ ret.isReady = (Bit(ret.rv, 0) = 1)
              /\ err_code = 0
        /\ busLog[1][4] # 0 =>
              /\ ret.rv >= 4
              /\ err_code = busLog[1][4] /\ err_code \in TransportCodes

\* getStatus has read a status with the lock bit set and the ready bit clear.
C23_Witness ==
    /\ Called("getStatus") /\ Failures = {}
    /\ ret = [rv |-> 2, isLocked |-> TRUE, isReady |-> FALSE]

-----------------------------------------------------------------------------
(* C24 *)

\* C24 (as claimed): construction performs no bus transaction, and from
\* construction until initialize runs the cached settings hold the power-on
\* defaults (gain 1, averaging 0, output rate 4, bias none) and the calibration
\* is (1, 1, 1).  Stated for the runs that call no setter and no refreshing
\* getter.
C24_DefaultsFromConstruction ==
    (session = "Lifecycle" /\ inits = 0) =>
        /\ op = NoCall => busLog = <<>>
        /\ gain = HMC_GAIN130
        /\ averagingRate = HMC_AVG1
        /\ outputRate = HMC_RATE1500
        /\ biasMode = HMC_BIAS_NONE
        /\ calibration = Ones

-----------------------------------------------------------------------------
(* C25 *)

\* The register the operation x restores after its measurement.
RestoredBy(x) ==
    IF x = "readScaledValuesSingle" THEN ModeRegister ELSE ConfigRegisterA

\* C25 (as claimed): in readScaledValuesSingle, runPosTest and runNegTest,
\* when the read of the measurement fails with error e1 and the restore write
\* that follows (of the measurement mode, resp. of bias none) fails with error
\* e2, and nothing else fails, the error the operation reports is e1.
C25_FirstErrorWins ==
    (op.name \in {"readScaledValuesSingle", "runPosTest", "runNegTest"}) =>
        \A i, j \in Failures :
            (/\ Failures = {i, j} /\ i < j
             /\ busLog[i][1] = "r" /\ busLog[i][2] = DataRegister
             /\ busLog[j][1] = "w" /\ busLog[j][2] = RestoredBy(op.name)) =>
                err_code = busLog[i][4]

-----------------------------------------------------------------------------
(* C26 *)

\* The operations whose result is a result code.
ReturnsCode ==
    {"initialize", "setGain", "setAveragingRate", "setOutputRate",
     "setMeasurementMode", "setBiasMode", "setHighSpeedI2CMode"}

\* The error the operation that has just returned reports: its result code, or
\* err_code for the operations that return a value.
Reported == IF op.name \in ReturnsCode THEN ret ELSE err_code

\* C26 (as claimed): an operation in which one bus read or write fails, with
\* code c, reports c; in particular a read of the status register that fails
\* with c while readScaledValuesSingle polls is reported as c.
C26_TransportCodeReported ==
    (op # NoCall) =>
        \A i \in Failures :
            /\ Failures = {i} => Reported = busLog[i][4]
            /\ (Called("readScaledValuesSingle") /\ busLog[i][2] = StatusRegister
                /\ \A j \in Failures : j >= i) => err_code = busLog[i][4]

-----------------------------------------------------------------------------
(* C27 *)

\* The successful writes of the mode register that select single-shot mode.
SwitchesToSingle ==
    {i \in WritesOf(ModeRegister) :
        busLog[i][4] = 0 /\ And8(busLog[i][3], 3) = HMC_MeasurementSingle}

\* After transaction i the call has tried to put the mode recorded back: it
\* has gone to the mode register again and, when the read of that
\* read-modify-write succeeded, has written the recorded mode.
RestoresAfter(i) ==
    \E j \in ReadsOf(ModeRegister) :
        /\ j > i
        /\ \A d \in ReadsOf(DataRegister) : d < j
        /\ busLog[j][4] = 0 =>
              /\ j + 1 \in WritesOf(ModeRegister)
              /\ And8(busLog[j + 1][3], 3) = ret.mode

\* C27 (as claimed): readScaledValuesSingle records the measurement mode
\* before it switches to single-shot mode and, once the switch succeeded,
\* always restores the recorded mode after the data read, also when the data
\* read failed; after a call in which no transaction failed the cached
\* measurement mode and the mode bits of the device equal the recorded mode.
C27_ModeRestoredAfterSingleRead ==
    Called("readScaledValuesSingle") =>
        \A i \in SwitchesToSingle :
            (\A k \in SwitchesToSingle : i <= k) =>
                /\ RestoresAfter(i)
                /\ Failures = {} =>
                      /\ measurementMode = ret.mode
                      /\ ModeBits(regs) = ret.mode

-----------------------------------------------------------------------------
(* C28 *)

\* The bias mode a test applies.
BiasOf(x) == IF x = "runPosTest" THEN HMC_BIAS_POSITIVE ELSE HMC_BIAS_NEGATIVE

\* Transaction i belongs to a single-shot scaled read.
OfSingleRead(i) == busLog[i][2] \in {ModeRegister, StatusRegister, DataRegister}

\* The call ends with the restore of bias none that starts at transaction j:
\* the read of Config A and, when that read succeeded, the write of bias 0.
EndsWithBiasRestore(j) ==
    /\ j \in ReadsOf(ConfigRegisterA)
    /\ IF busLog[j][4] # 0 THEN Len(busLog) = j
       ELSE /\ Len(busLog) = j + 1
            /\ j + 1 \in WritesOf(ConfigRegisterA)
            /\ And8(busLog[j + 1][3], 3) = HMC_BIAS_NONE

\* C28: runPosTest (resp. runNegTest) first sets bias mode positive (resp.
\* negative), then performs one single-shot scaled read, then always restores
\* bias mode none, also when the read failed; when setting the bias fails there
\* is no read and no restore.
C28_BiasTestSequence ==
    (op.name \in {"runPosTest", "runNegTest"}) =>
        /\ Len(busLog) >= 1 /\ 1 \in ReadsOf(ConfigRegisterA)
        /\ busLog[1][4] # 0 => Len(busLog) = 1
        /\ busLog[1][4] = 0 =>
              /\ Len(busLog) >= 2 /\ 2 \in WritesOf(ConfigRegisterA)
              /\ And8(busLog[2][3], 3) = BiasOf(op.name)
              /\ busLog[2][4] # 0 => Len(busLog) = 2
              /\ busLog[2][4] = 0 =>
                    /\ Cardinality(ReadsOf(DataRegister)) <= 1
                    /\ \E j \in 3 .. Len(busLog) :
                          /\ \A i \in 3 .. j - 1 : OfSingleRead(i)
                          /\ EndsWithBiasRestore(j)

\* A positive test whose data read failed has written bias none back.
C28_Witness ==
    /\ Called("runPosTest")
    /\ \E d \in ReadsOf(DataRegister) : busLog[d][4] # 0
    /\ Len(busLog) \in WritesOf(ConfigRegisterA)
    /\ busLog[Len(busLog)][4] = 0
    /\ And8(busLog[Len(busLog)][3], 3) = HMC_BIAS_NONE
    /\ ret.vec = <<0, 0, 0>> /\ err_code = EC_NACK_ADDR

-----------------------------------------------------------------------------
(* C29 *)

\* The transactions from index a on start a test with bias mode b: the read of
\* Config A and, when it succeeded, the write of b.
StartsTest(a, b) ==
    /\ a \in ReadsOf(ConfigRegisterA)
    /\ busLog[a][4] = 0 =>
          (a + 1 \in WritesOf(ConfigRegisterA) /\ And8(busLog[a + 1][3], 3) = b)

\* The call has failed in the test t: it ends with t, returns (0, 0, 0) and
\* records the error of t.
FailsWith(t) ==
    /\ Len(busLog) = t.last
    /\ ret.vec = Zeros
    /\ err_code = t.err_code

\* getCalibration(update = true) runs the positive test first and the negative
\* test only when the positive test succeeded, and a call in which a test
\* failed ends with that test, returns (0, 0, 0) and records its error.
TestsInOrder ==
    (Called("getCalibration") /\ op.arg.update) =>
        /\ Len(ret.tests) >= 1
        /\ StartsTest(1, HMC_BIAS_POSITIVE)
        /\ \A i \in WritesOf(ConfigRegisterA) :
              i <= ret.tests[1].last =>
                  And8(busLog[i][3], 3) \in {HMC_BIAS_POSITIVE, HMC_BIAS_NONE}
        /\ ret.tests[1].err_code # 0 =>
              /\ Len(ret.tests) = 1
              /\ FailsWith(ret.tests[1])
        /\ ret.tests[1].err_code = 0 =>
              /\ Len(ret.tests) = 2
              /\ Len(busLog) = ret.tests[2].last
              /\ ret.tests[1].last < ret.tests[2].last
              /\ StartsTest(ret.tests[1].last + 1, HMC_BIAS_NEGATIVE)
              /\ \A i \in WritesOf(ConfigRegisterA) :
                    i > ret.tests[1].last =>
                        And8(busLog[i][3], 3) \in {HMC_BIAS_NEGATIVE, HMC_BIAS_NONE}
              /\ ret.tests[2].err_code # 0 => FailsWith(ret.tests[2])

\* C29: getCalibration(update = true) runs runPosTest before runNegTest; when
\* runPosTest fails runNegTest is not run; when either fails the call returns
\* (0, 0, 0), records the error and leaves the stored calibration unchanged.
C29_CalibrationTestsInOrder ==
    /\ []TestsInOrder
    /\ [][ (op'.name = "getCalibration" /\ op'.arg.update /\ err_code' # 0) =>
              calibration' = calibration ]_vars

\* The positive test has succeeded and the negative test has failed.
C29_Witness ==
    /\ Called("getCalibration") /\ op.arg.update
    /\ Len(ret.tests) = 2
    /\ ret.tests[1].err_code = 0
    /\ ret.tests[2].err_code = EC_NACK_ADDR
    /\ ret.vec = Zeros /\ err_code = EC_NACK_ADDR
    /\ calibration # Zeros

-----------------------------------------------------------------------------
(* C30 *)

\* C30: getCalibration(update = false) returns the stored calibration vector,
\* performs no bus transaction and changes no state of the driver (cached
\* settings, err_code, calibration) or of the device.
C30_CachedCalibrationIsPure ==
    [][ (op'.name = "getCalibration" /\ ~op'.arg.update) =>
            /\ ret'.vec = calibration
            /\ busLog' = <<>>
            /\ UNCHANGED <<gain, averagingRate, outputRate, measurementMode,
                           biasMode, err_code, calibration, regs>> ]_vars

\* The calibration a self test stored has been returned from the cache.
C30_Witness ==
    /\ Called("getCalibration") /\ ~op.arg.update
    /\ ~Uncalibrated
    /\ ret.vec = calibration
    /\ busLog = <<>>

-----------------------------------------------------------------------------
(* C31 *)

\* C31: getMeasurementMode called while the cached mode is single-shot reads
\* the Mode register whatever the update flag is, and when the read succeeds
\* returns and caches the mode bits of the device; so once the device has gone
\* from single-shot to idle by itself, getMeasurementMode(false) returns idle
\* and caches idle.
C31_SingleShotCacheIsReread ==
    [][ (op'.name = "getMeasurementMode"
         /\ measurementMode = HMC_MeasurementSingle) =>
            /\ Len(busLog') = 1
            /\ busLog'[1][1] = "r" /\ busLog'[1][2] = ModeRegister
            /\ busLog'[1][4] = 0 =>
                  /\ ret' = ModeBits(regs)
                  /\ measurementMode' = ModeBits(regs)
                  /\ ModeBits(regs) = HMC_MeasurementIdle =>
                        (ret' = HMC_MeasurementIdle
                         /\ measurementMode' = HMC_MeasurementIdle) ]_vars

\* getMeasurementMode(false) has read the register and found the device idle.
C31_Witness ==
    /\ Called("getMeasurementMode") /\ op.arg = FALSE
    /\ busLog = << <<"r", ModeRegister, regs[ModeRegister], 0>> >>
    /\ ModeBits(regs) = HMC_MeasurementIdle
    /\ ret = HMC_MeasurementIdle /\ measurementMode = HMC_MeasurementIdle

-----------------------------------------------------------------------------
(* C32 *)

\* The restore of the recorded mode has been attempted after transaction i:
\* the call has gone to the mode register again, or the setter has refused a
\* recorded mode that is no mode.
RestoreAttemptedAfter(i) ==
    \/ \E j \in ReadsOf(ModeRegister) : j > i
    \/ ret.mode > 2 /\ err_code = EC_INVALID_MEASUREMENT_MODE

\* C32 (as claimed): once readScaledValuesSingle has switched the device to
\* single-shot mode, every return path attempts to restore the recorded mode,
\* the path on which a poll of the status register fails on the bus included.
C32_EveryPathRestoresMode ==
    Called("readScaledValuesSingle") =>
        \A i \in SwitchesToSingle :
            (\A k \in SwitchesToSingle : i <= k) =>
                /\ RestoreAttemptedAfter(i)
                /\ \A p \in ReadsOf(StatusRegister) :
                      busLog[p][4] # 0 => RestoreAttemptedAfter(p)

-----------------------------------------------------------------------------
(* C33 *)

\* C33 (as claimed): once initialize has returned 0, whatever operations
\* follow and whatever the registers of the device hold, each cached setting
\* is a value of its enumeration: gain in 0..7, averaging rate in 0..3, output
\* rate in 0..6, measurement mode in 0..2, bias mode in 0..2.
C33_CachedSettingsInRange ==
    initialized =>
        /\ gain \in 0 .. 7
        /\ averagingRate \in 0 .. 3
        /\ outputRate \in 0 .. 6
        /\ measurementMode \in 0 .. 2
        /\ biasMode \in 0 .. 2

-----------------------------------------------------------------------------
(* C34 *)

\* C34 (as claimed): when readScaledValues indexes the table of resolutions
\* after an initialize call that returned 0, with or without configuration,
\* the cached gain is a level in 0..7, so the index is inside the table.
C34_GainIndexInBounds ==
    (initialized /\ Called("readScaledValues") /\ Failures = {}) =>
        gain \in 0 .. 7

-----------------------------------------------------------------------------
(* C35 *)

\* The call that returns is a bias test, or a calibration that runs them.
RunsBiasTests ==
    \/ op.name \in {"runPosTest", "runNegTest"}
    \/ op.name = "getCalibration" /\ op.arg.update

\* C35: when no transaction of runPosTest, runNegTest or getCalibration(true)
\* fails, whatever the retry limit and the delay (a rejected delay included),
\* the call leaves the bias bits of Config A and the cached bias mode at none,
\* and leaves the averaging rate and the output rate, on the device and in the
\* cache, as they were before the call.
C35_BiasTestsLeaveConfigA ==
    [][ (RunsBiasTests' /\ Failures' = {}) =>
            /\ BiasBits(regs') = HMC_BIAS_NONE
            /\ biasMode' = HMC_BIAS_NONE
            /\ AveragingBits(regs') = AveragingBits(regs)
            /\ OutputRateBits(regs') = OutputRateBits(regs)
            /\ averagingRate' = averagingRate
            /\ outputRate' = outputRate ]_vars

\* A calibration given a negative delay, which the single-shot read rejects
\* before any transaction: the positive test has set its bias and set it back
\* to none, around no measurement, on a device whose Config A held 0xff.
C35_Witness ==
    /\ Called("getCalibration") /\ op.arg.update /\ op.arg.delay_time < 0
    /\ Failures = {}
    /\ Len(busLog) = 4
    /\ busLog[2] = <<"w", ConfigRegisterA, 253, 0>>
    /\ busLog[4] = <<"w", ConfigRegisterA, 252, 0>>
    /\ regs[ConfigRegisterA] = 252
    /\ biasMode = HMC_BIAS_NONE

-----------------------------------------------------------------------------
(* C36 *)

\* The position, among the transactions of the readScaledValuesSingle about to
\* run, of the read that opens the switch to single-shot mode: the second one
\* when getMeasurementMode() goes to the device first, which it does when the
\* cached mode is single-shot.
SwitchStart == IF measurementMode = HMC_MeasurementSingle THEN 2 ELSE 1

\* C36 (as claimed): when the switch to single-shot mode fails at the start of
\* readScaledValuesSingle, that is when the call stops at the failed read of
\* the mode register that opens the switch or at the failed write that
\* follows it, the call returns (0, 0, 0) with the error of the
\* switch, has polled no status, read no data and written no restore, and the
\* cached measurement mode is what it was before the call.
C36_FailedSwitchLeavesCache ==
    [][ (/\ op'.name = "readScaledValuesSingle" /\ op'.arg.delay_time >= 0
         /\ Len(busLog') \in {SwitchStart, SwitchStart + 1}
         /\ busLog'[Len(busLog')][4] # 0) =>
            /\ ret'.vec = <<0, 0, 0>>
            /\ err_code' = busLog'[Len(busLog')][4]
            /\ ReadsOf(StatusRegister)' = {}
            /\ ReadsOf(DataRegister)' = {}
            /\ WritesOf(ModeRegister)' \subseteq {SwitchStart + 1}
            /\ measurementMode' = measurementMode ]_vars


\* C36 (as the code has it): when the switch to single-shot mode fails at the
\* start of readScaledValuesSingle, the call returns (0, 0, 0) with the error
\* of the switch, has polled no status, read no data and written no restore,
\* and the cached measurement mode is the mode getMeasurementMode() recorded
\* at the start of the call: the mode cached before the call unless that was
\* single-shot, in which case it is what the read of the mode register gave.
C36_FailedSwitchKeepsRecordedMode ==
    [][ (/\ op'.name = "readScaledValuesSingle" /\ op'.arg.delay_time >= 0
         /\ Len(busLog') \in {SwitchStart, SwitchStart + 1}
         /\ busLog'[Len(busLog')][4] # 0) =>
            /\ ret'.vec = <<0, 0, 0>>
            /\ err_code' = busLog'[Len(busLog')][4]
            /\ ReadsOf(StatusRegister)' = {}
            /\ ReadsOf(DataRegister)' = {}
            /\ WritesOf(ModeRegister)' \subseteq {SwitchStart + 1}
            /\ measurementMode' = ret'.mode
            /\ measurementMode # HMC_MeasurementSingle =>
                    measurementMode' = measurementMode
            /\ (measurementMode = HMC_MeasurementSingle /\ busLog'[1][4] = 0) =>
                    measurementMode' = ModeBits(regs) ]_vars

\* The cache held single-shot while the device had gone idle: the call has
\* read the mode register, cached idle, and stopped at the failed read that
\* opens the switch.
C36_Witness ==
    /\ Called("readScaledValuesSingle") /\ op.arg.delay_time >= 0
    /\ Len(busLog) = 2
    /\ busLog[1] = <<"r", ModeRegister, regs[ModeRegister], 0>>
    /\ busLog[2][1] = "r" /\ busLog[2][2] = ModeRegister /\ busLog[2][4] # 0
    /\ ModeBits(regs) = HMC_MeasurementIdle
    /\ measurementMode = HMC_MeasurementIdle
    /\ ret.mode = HMC_MeasurementIdle
    /\ ret.vec = <<0, 0, 0>>
    /\ err_code = busLog[2][4]

-----------------------------------------------------------------------------
(* C37 *)

\* The field of Config A the setter called name sets, in the register byte b.
DeviceField(name, b) ==
    CASE name = "setAveragingRate" -> Shr8(And8(b, 96), 5)
      [] name = "setOutputRate" -> Shr8(And8(b, 28), 2)
      [] name = "setBiasMode" -> And8(b, 3)

\* The cached setting the setter called name records.
CachedField(name) ==
    CASE name = "setAveragingRate" -> averagingRate
      [] name = "setOutputRate" -> outputRate
      [] name = "setBiasMode" -> biasMode

\* Caller c has returned 0 from its setter.
Succeeded(c) == callers[c].pc = "done" /\ callers[c].rv = 0

\* Callers a and b have both returned 0 from setters of different fields of
\* Config A, and a's write came first.
BothSet(a, b) ==
    /\ a # b /\ Succeeded(a) /\ Succeeded(b)
    /\ callers[a].name # callers[b].name
    /\ callers[a].writeAt < callers[b].writeAt

\* C37: when two callers have both returned 0 from setters of different
\* fields of Config A, both cached settings hold the values set, and the
\* register holds the field of the caller that wrote last.  If both reads
\* came before both writes, the field of the caller that wrote first is back
\* at what the register held before the calls, so that the register misses
\* that caller's value, which its cache records, whenever the value differs
\* from the old one; if the calls did not overlap, the register holds both
\* values.
C37_InterleavedSettersLoseUpdate ==
    session = "Interleaved" =>
        \A a, b \in Callers :
            BothSet(a, b) =>
                /\ CachedField(callers[a].name) = callers[a].arg
                /\ CachedField(callers[b].name) = callers[b].arg
                /\ DeviceField(callers[b].name, regs[ConfigRegisterA]) = callers[b].arg
                /\ IF callers[b].readAt < callers[a].writeAt
                   THEN /\ callers[a].seen = callers[b].seen
                        /\ DeviceField(callers[a].name, regs[ConfigRegisterA])
                              = DeviceField(callers[a].name, callers[b].seen)
                        /\ callers[a].arg # DeviceField(callers[a].name, callers[a].seen)
                              => DeviceField(callers[a].name, regs[ConfigRegisterA])
                                    # CachedField(callers[a].name)
                   ELSE DeviceField(callers[a].name, regs[ConfigRegisterA])
                            = callers[a].arg

\* setAveragingRate(3) and setBiasMode(1) on a device holding 0x10, both reads
\* ahead of both writes: both callers returned 0 and both caches hold the
\* values set, but the register holds 0x11, without the averaging rate.
C37_Witness ==
    /\ session = "Interleaved"
    /\ BothSet(1, 2)
    /\ callers[1].name = "setAveragingRate" /\ callers[1].arg = 3
    /\ callers[2].name = "setBiasMode" /\ callers[2].arg = 1
    /\ busLog = << <<"r", ConfigRegisterA, 16, 0>>, <<"r", ConfigRegisterA, 16, 0>>,
                   <<"w", ConfigRegisterA, 112, 0>>, <<"w", ConfigRegisterA, 17, 0>> >>
    /\ regs[ConfigRegisterA] = 17
    /\ averagingRate = 3 /\ biasMode = 1

-----------------------------------------------------------------------------
(* C38 *)

\* C38: in every call, every write to Config B has bits 0-4 clear, and every
\* write setMeasurementMode issues to the Mode register, called directly or
\* from initialize or a single-shot read, has bits 2-6 clear.
C38_ReservedBitsWrittenZero ==
    /\ \A i \in WritesOf(ConfigRegisterB) : And8(busLog[i][3], 31) = 0
    /\ op.name # "setHighSpeedI2CMode" =>
          \A i \in WritesOf(ModeRegister) : And8(busLog[i][3], 124) = 0

\* initialize(false) on a device whose registers held 0xff: Config B has been
\* written 0x20 and the Mode register 0x82, bit 7 kept and bits 2-6 cleared.
C38_Witness ==
    /\ Called("initialize") /\ op.arg = FALSE /\ ret = 0
    /\ busLog[1] = <<"w", ConfigRegisterB, 32, 0>>
    /\ \E i \in WritesOf(ModeRegister) :
          /\ busLog[i - 1] = <<"r", ModeRegister, 255, 0>>
          /\ busLog[i] = <<"w", ModeRegister, 130, 0>>

====
